---- MODULE Spec2Model ----
(***************************************************************************)
(* OAuth authentication / session-management core of bluesky-playground.   *)
(*                                                                         *)
(* The repository holds two implementations side by side:                  *)
(*   "legacy"  - the module-level createOAuthClient / getUserAgent of      *)
(*               $lib/server/oauth and the route handlers that call it;    *)
(*   "service" - the class BlueskyOAuthService, the BlueskyService facade  *)
(*               in front of it and the route handlers that call those.    *)
(* Both hand two store adapters (stateStore, sessionStore) to the external *)
(* NodeOAuthClient.  The client itself is not part of the repository; its  *)
(* steps are modelled after section 4.3 / 4.4 of the specification.        *)
(***************************************************************************)
EXTENDS Integers, Sequences, FiniteSets, TLC

\* ------------------------------------------------------------------ bounds
NumKeys == 2
NumDids == 2
NumCreds == 2
MaxInstances == 2

KeyNames == <<"k1", "k2", "k3", "k4">>
DidNames == <<"did:plc:a", "did:plc:b", "did:plc:c", "did:plc:d">>
CredNames == <<"tok1", "tok2", "tok3", "tok4">>

Keys == {KeyNames[i] : i \in 1..NumKeys}
Dids == {DidNames[i] : i \in 1..NumDids}
Creds == {CredNames[i] : i \in 1..NumCreds}
Browsers == {"b1"}
Impls == {"legacy", "service"}

\* URLSearchParams.get / cookies.get of something absent
None == "none"

\* ------------------------------------------------------------ JS Map model
EmptyMap == [x \in {} |-> None]
MapHas(m, k) == k \in DOMAIN m
\* a set that writes the value under every key
MapSetAll(m, k, v) == [x \in (DOMAIN m) \cup {k} |-> v]

MapSet(m, k, v) == [x \in (DOMAIN m) \cup {k} |-> IF x = k THEN v ELSE m[x]]
MapDelete(m, k) == [x \in (DOMAIN m) \ {k} |-> m[x]]

\* ------------------------------------------------- outcomes of async calls
Resolved(v) == [kind |-> "resolved", value |-> v]
Rejected(msg) == [kind |-> "rejected", prefix |-> "", message |-> msg]
\* an error caught and thrown again as new Error(prefix + error.message)
Rethrown(prefix, msg) == [kind |-> "rejected", prefix |-> prefix, message |-> msg]

\* messages of errors raised below the handlers
MsgTypeError == "Cannot read properties of undefined"
MsgMissingState == "Missing state parameter"
MsgUnknownState == "Unknown authorization session"
MsgMissingCode == "Missing code query param"
MsgExchange == "token exchange failed"
MsgRefresh == "token refresh failed"
MsgProfile == "getProfile failed"
MsgAuthorize == "authorize failed"
\* messages written in the repository's own code
MsgNoSession == "No valid session found for user"
PrefixAuthFailed == "Authentication failed: "
PrefixAuthorizeFailed == "OAuth authorization failed: "

\* ---------------------------------------------------------- store adapters
\* The adapters are methods of object literals handed to NodeOAuthClient; the
\* client calls them on that literal, so inside them `this` is the literal.
AdapterOwnProps == {"set", "get", "del"}

\* Does the adapter body reach its backing Map?  legacy: the closed-over
\* module constant; service: the property `field` of `this`.
AdapterResolves(impl, field) ==
  IF impl = "legacy" THEN TRUE ELSE field \in AdapterOwnProps

AdapterGet(impl, field, m, k) ==
  IF AdapterResolves(impl, field)
    THEN [threw |-> FALSE, found |-> MapHas(m, k), map |-> m]
    ELSE [threw |-> TRUE, found |-> FALSE, map |-> m]

\* set that keeps an entry already present
AdapterSetIfAbsent(impl, field, m, k, v) ==
  IF AdapterResolves(impl, field)
    THEN [threw |-> FALSE, map |-> IF MapHas(m, k) THEN m ELSE MapSet(m, k, v)]
    ELSE [threw |-> TRUE, map |-> m]

AdapterSet(impl, field, m, k, v) ==
  IF AdapterResolves(impl, field)
    THEN [threw |-> FALSE, map |-> MapSet(m, k, v)]
    ELSE [threw |-> TRUE, map |-> m]

AdapterDel(impl, field, m, k) ==
  IF AdapterResolves(impl, field)
    THEN [threw |-> FALSE, map |-> MapDelete(m, k)]
    ELSE [threw |-> TRUE, map |-> m]

\* ------------------------------------------------------------ environment
\* callback query parameters (URLSearchParams)
Params == [state : Keys \cup {None}, code : {None, "code"},
           error : {None, "access_denied", "oauth_failed"}]

\* answer of the authorization server to the code-for-token exchange, as the
\* client reports it: a token set for a subject, a failure, or (the stub of
\* the unit tests) a result without a session
ExchangeOutcomes ==
  {[kind |-> "fail", sub |-> None, cred |-> None],
   [kind |-> "nosession", sub |-> None, cred |-> None]}
  \cup [kind : {"ok"}, sub : Dids, cred : Creds]

\* what restoring a stored session meets: credentials still fresh, stale and
\* refreshed to new credentials, or stale with a failing refresh
RestoreOutcomes ==
  {[kind |-> "fresh", cred |-> None], [kind |-> "refresh_fail", cred |-> None]}
  \cup [kind : {"refresh_ok"}, cred : Creds]

Session(d, c) == [sub |-> d, cred |-> c]
\* null / undefined where a session is expected
NullSession == Session(None, None)
StateData(k) == [key |-> k]
\* every content the session Map can have: sessions keyed by their subject
SessionStores ==
  UNION {{[d \in D |-> Session(d, f[d])] : f \in [D -> Creds]} : D \in SUBSET Dids}

\* ------------------------------------------- NodeOAuthClient (external)
\* client.authorize: writes the request state under a fresh key, then
\* resolves the endpoint and builds the URL (envOk: that part succeeds)
LibAuthorize(impl, st, k, envOk) ==
  LET w == AdapterSet(impl, "stateStore", st, k, StateData(k)) IN
  IF w.threw THEN [stateStore |-> st, out |-> Rejected(MsgTypeError)]
  ELSE IF ~envOk THEN [stateStore |-> w.map, out |-> Rejected(MsgAuthorize)]
  ELSE [stateStore |-> w.map, out |-> Resolved([url |-> "authorize", state |-> k])]

\* a client.callback that drops the stored sessions when it fails
CallbackRejectedClearing(st2, ss, msg, exch) ==
  [stateStore |-> st2, sessionStore |-> EmptyMap, out |-> Rejected(msg), exchanged |-> exch]

\* client.callback rejecting: the session Map is as it was
CallbackRejected(st2, ss, msg, exch) ==
  [stateStore |-> st2, sessionStore |-> ss, out |-> Rejected(msg), exchanged |-> exch]

\* client.callback: state lookup, state deletion, error / code checks, token
\* exchange, session write
LibCallback(impl, st, ss, params, ex) ==
  LET g == AdapterGet(impl, "stateStore", st, params.state)
      dl == AdapterDel(impl, "stateStore", st, params.state)
      w == AdapterSet(impl, "sessionStore", ss, ex.sub, Session(ex.sub, ex.cred))
      Fail(st2, msg, exch) == CallbackRejected(st2, ss, msg, exch)
  IN
  IF params.state = None THEN Fail(st, MsgMissingState, FALSE)
  ELSE IF g.threw THEN Fail(st, MsgTypeError, FALSE)
  ELSE IF ~g.found THEN Fail(st, MsgUnknownState, FALSE)
  ELSE IF dl.threw THEN Fail(st, MsgTypeError, FALSE)
  ELSE IF params.error # None THEN Fail(dl.map, params.error, FALSE)
  ELSE IF params.code = None THEN Fail(dl.map, MsgMissingCode, FALSE)
  ELSE IF ex.kind = "fail" THEN Fail(dl.map, MsgExchange, TRUE)
  ELSE IF ex.kind = "nosession" THEN
    [stateStore |-> dl.map, sessionStore |-> ss,
     out |-> Resolved([session |-> NullSession]), exchanged |-> TRUE]
  ELSE IF w.threw THEN Fail(dl.map, MsgTypeError, TRUE)
  ELSE [stateStore |-> dl.map, sessionStore |-> w.map,
        out |-> Resolved([session |-> Session(ex.sub, ex.cred)]), exchanged |-> TRUE]

\* client.restore: session read, refresh of stale credentials with write-back
LibRestore(impl, ss, d, rs) ==
  LET g == AdapterGet(impl, "sessionStore", ss, d)
      w == AdapterSet(impl, "sessionStore", ss, d, Session(d, rs.cred))
  IN
  IF g.threw THEN [sessionStore |-> ss, out |-> Rejected(MsgTypeError), refreshed |-> FALSE]
  ELSE IF ~g.found THEN [sessionStore |-> ss, out |-> Resolved([session |-> NullSession]), refreshed |-> FALSE]
  ELSE IF rs.kind = "fresh" THEN
    [sessionStore |-> ss, out |-> Resolved([session |-> ss[d]]), refreshed |-> FALSE]
  ELSE IF rs.kind = "refresh_fail" THEN
    [sessionStore |-> ss, out |-> Rejected(MsgRefresh), refreshed |-> FALSE]
  ELSE IF w.threw THEN [sessionStore |-> ss, out |-> Rejected(MsgTypeError), refreshed |-> TRUE]
  ELSE [sessionStore |-> w.map, out |-> Resolved([session |-> Session(d, rs.cred)]), refreshed |-> TRUE]

\* ------------------------------------------------ answers of route handlers
Redirect(loc) == [kind |-> "redirect", location |-> loc]
PageData(isCb, hasErr, ok, d, to) ==
  [kind |-> "data", isOAuthCallback |-> isCb, hasError |-> hasErr,
   success |-> ok, userDid |-> d, redirectTo |-> to, session |-> NullSession]

\* --------------------------------------------------- BlueskyOAuthService
\* OAuthCallbackResult as handleCallback builds it
CallbackSuccess(session) ==
  [success |-> TRUE, userDid |-> session.sub, error |-> None,
   session |-> NullSession, profile |-> [did |-> session.sub]]
CallbackFailure(msg) ==
  [success |-> FALSE, userDid |-> None, error |-> msg,
   session |-> NullSession, profile |-> [did |-> None]]

\* handleCallback: every error below it is caught and turned into a result
HandleCallbackOutcome(lib, profOk) ==
  IF lib.out.kind = "rejected" THEN Resolved(CallbackFailure(lib.out.message))
  ELSE IF lib.out.value.session = NullSession THEN Resolved(CallbackFailure(MsgTypeError))
  ELSE IF ~profOk THEN Resolved(CallbackFailure(MsgProfile))
  ELSE Resolved(CallbackSuccess(lib.out.value.session))

HandleCallback(st, ss, params, ex, profOk) ==
  LET lib == LibCallback("service", st, ss, params, ex) IN
  [stateStore |-> lib.stateStore, sessionStore |-> lib.sessionStore,
   lib |-> lib.out, exchanged |-> lib.exchanged,
   out |-> HandleCallbackOutcome(lib, profOk)]

\* getAuthenticatedAgent: restore, null check, every error thrown again
GetAuthenticatedAgentOutcome(lib) ==
  IF lib.out.kind = "rejected" THEN Rethrown(PrefixAuthFailed, lib.out.message)
  ELSE IF lib.out.value.session = NullSession THEN Rethrown(PrefixAuthFailed, MsgNoSession)
  ELSE Resolved([agent |-> lib.out.value.session.sub])

GetAuthenticatedAgent(ss, d, rs) ==
  LET lib == LibRestore("service", ss, d, rs) IN
  [sessionStore |-> lib.sessionStore, lib |-> lib.out, refreshed |-> lib.refreshed,
   out |-> GetAuthenticatedAgentOutcome(lib)]

\* hasValidSession without its try / catch
HasValidSessionOutcomeUncaught(lib) ==
  IF lib.out.kind = "rejected" THEN lib.out
  ELSE Resolved(lib.out.value.session # NullSession)

\* hasValidSession: restore, `session !== null`, false on any error
HasValidSessionOutcome(lib) ==
  IF lib.out.kind = "rejected" THEN Resolved(FALSE)
  ELSE Resolved(lib.out.value.session # NullSession)

HasValidSession(ss, d, rs) ==
  LET lib == LibRestore("service", ss, d, rs) IN
  [sessionStore |-> lib.sessionStore, lib |-> lib.out, refreshed |-> lib.refreshed,
   out |-> HasValidSessionOutcome(lib)]

\* logout that raises when there is nothing to delete
LogoutStrict(ss, d) ==
  [sessionStore |-> MapDelete(ss, d),
   out |-> IF MapHas(ss, d) THEN Resolved(None) ELSE Rejected(MsgNoSession)]

\* logout: deletes from the service's own Map (a method of the class)
Logout(ss, d) == [sessionStore |-> MapDelete(ss, d), out |-> Resolved(None)]

\* initiateLogin
InitiateLoginOutcome(lib) ==
  IF lib.out.kind = "rejected" THEN Rethrown(PrefixAuthorizeFailed, lib.out.message)
  ELSE Resolved(lib.out.value)

\* --------------------------------------------------------- BlueskyService
\* handleOAuthCallback sets the cookie `if (result.success && result.userDid)`
FacadeSetsCookie(result) == result.success /\ result.userDid # None

FacadeCookie(cookie, result) ==
  IF FacadeSetsCookie(result) THEN result.userDid ELSE cookie

\* a callback endpoint that puts the error text into the redirect
ServiceCallbackRedirectDetailed(result) ==
  IF result.success /\ result.userDid # None
    THEN Redirect("/dashboard") ELSE Redirect(result.error)

\* GET of the root callback endpoint, after handleOAuthCallback has answered
ServiceCallbackRedirect(result) ==
  IF result.success /\ result.userDid # None
    THEN Redirect("/dashboard") ELSE Redirect("/?error=oauth_failed")

\* logout(userDid, cookies): oauthService.logout, then cookies.delete; the
\* cookie is deleted only when the first call did not raise
FacadeLogoutResult(ss, cookie, d) ==
  LET r == Logout(ss, d) IN
  [sessionStore |-> r.sessionStore,
   cookie |-> IF r.out.kind = "resolved" THEN None ELSE cookie,
   out |-> r.out]

\* GET of routes/auth/logout/+server.ts (service version)
ServiceLogoutGET(ss, cookie) ==
  LET r == FacadeLogoutResult(ss, cookie, cookie) IN
  [sessionStore |-> IF cookie # None THEN r.sessionStore ELSE ss,
   cookie |-> None, out |-> Redirect("/")]

\* ------------------------------------------------ legacy route handlers
\* any of the OAuth parameters taken as the sign of a callback
IsRealOAuthCallbackLoose(params) ==
  params.code # None \/ params.state # None \/ params.error # None

\* `code` and `state` must both be present ("REAL OAuth callback")
IsRealOAuthCallback(params) == params.code # None /\ params.state # None

\* load returning the session object along with the subject
RootLoadDataLeaky(session) ==
  [PageData(TRUE, FALSE, TRUE, session.sub, "/dashboard") EXCEPT !.session = session]

\* the data load returns after a completed callback
RootLoadData(session) == PageData(TRUE, FALSE, TRUE, session.sub, "/dashboard")

\* load of routes/+page.server.ts
RootLoad(st, ss, cookie, params, ex) ==
  LET lib == LibCallback("legacy", st, ss, params, ex)
      same == [stateStore |-> st, sessionStore |-> ss, cookie |-> cookie,
               called |-> FALSE, exchanged |-> FALSE, cookieSet |-> FALSE,
               lib |-> Rejected(None),
               out |-> PageData(FALSE, params.error = "oauth_failed", FALSE, None, None)]
  IN
  IF ~IsRealOAuthCallback(params) THEN same
  ELSE IF lib.out.kind = "rejected" \/ lib.out.value.session = NullSession THEN
    [stateStore |-> lib.stateStore, sessionStore |-> lib.sessionStore, cookie |-> cookie,
     called |-> TRUE, exchanged |-> lib.exchanged, cookieSet |-> FALSE, lib |-> lib.out,
     out |-> Redirect("/?error=oauth_failed")]
  ELSE
    [stateStore |-> lib.stateStore, sessionStore |-> lib.sessionStore,
     cookie |-> lib.out.value.session.sub,
     called |-> TRUE, exchanged |-> lib.exchanged, cookieSet |-> TRUE, lib |-> lib.out,
     out |-> RootLoadData(lib.out.value.session)]

\* cookies.set placed ahead of the agent.getProfile call
CallbackGETSetsCookieEarly(lib, profOk) ==
  lib.out.kind = "resolved" /\ lib.out.value.session # NullSession

\* the callback endpoint reaches cookies.set only past client.callback,
\* `session.sub` and agent.getProfile
CallbackGETSetsCookie(lib, profOk) ==
  lib.out.kind = "resolved" /\ lib.out.value.session # NullSession /\ profOk

\* ... and `throw redirect(302, '/dashboard')` right after it
CallbackGETCompletes(lib, profOk) ==
  lib.out.kind = "resolved" /\ lib.out.value.session # NullSession /\ profOk

\* GET of routes/auth/callback/+server.ts
CallbackGET(st, ss, cookie, params, ex, profOk) ==
  LET lib == LibCallback("legacy", st, ss, params, ex)
      ok == CallbackGETSetsCookie(lib, profOk)
      done == CallbackGETCompletes(lib, profOk)
  IN
  [stateStore |-> lib.stateStore, sessionStore |-> lib.sessionStore,
   cookie |-> IF ok THEN lib.out.value.session.sub ELSE cookie,
   called |-> TRUE, exchanged |-> lib.exchanged, cookieSet |-> ok, lib |-> lib.out,
   out |-> IF done THEN Redirect("/dashboard") ELSE Redirect("/?error=oauth_failed")]

\* GET of routes/auth/logout/+server.ts (createOAuthClient version)
LegacyLogoutGET(ss, cookie) ==
  LET dl == AdapterDel("legacy", "sessionStore", ss, cookie) IN
  [sessionStore |-> IF cookie # None THEN dl.map ELSE ss,
   cookie |-> None, out |-> Redirect("/")]

\* getUserAgent of $lib/server/oauth
GetUserAgent(ss, d, rs) ==
  LET lib == LibRestore("legacy", ss, d, rs) IN
  [sessionStore |-> lib.sessionStore, lib |-> lib.out, refreshed |-> lib.refreshed,
   out |-> IF lib.out.kind = "rejected" THEN lib.out
           ELSE IF lib.out.value.session = NullSession THEN Rejected(MsgNoSession)
           ELSE Resolved([agent |-> lib.out.value.session.sub])]

\* --------------------------------------------------- protected page loads
\* the page data of a protected load: `user: sessionId`
UserData(d) == [kind |-> "data", user |-> d]

\* a dashboard load that skips the validity check
DashboardLoadUnchecked(ss, cookie, rs, rs2) ==
  IF cookie = None THEN [sessionStore |-> ss, cookie |-> cookie, out |-> Redirect("/")]
  ELSE [sessionStore |-> ss, cookie |-> cookie, out |-> UserData(cookie)]

\* load of routes/dashboard/+page.server.ts (service version): cookie check,
\* hasValidSession, executeDemoAPI (which restores the session once more; a
\* failure there becomes apiError in the page data)
DashboardLoad(ss, cookie, rs, rs2) ==
  IF cookie = None THEN [sessionStore |-> ss, cookie |-> cookie, out |-> Redirect("/")]
  ELSE LET h == HasValidSession(ss, cookie, rs) IN
    IF ~h.out.value
      THEN [sessionStore |-> h.sessionStore, cookie |-> None, out |-> Redirect("/")]
    ELSE [sessionStore |-> GetAuthenticatedAgent(h.sessionStore, cookie, rs2).sessionStore,
          cookie |-> cookie, out |-> UserData(cookie)]

\* load of routes/tv-guide/+page.server.ts: cookie check, hasValidSession,
\* getTimelineEnriched
TvGuideLoad(ss, cookie, rs, rs2) ==
  IF cookie = None THEN [sessionStore |-> ss, cookie |-> cookie, out |-> Redirect("/")]
  ELSE LET h == HasValidSession(ss, cookie, rs) IN
    IF ~h.out.value
      THEN [sessionStore |-> h.sessionStore, cookie |-> None, out |-> Redirect("/")]
    ELSE [sessionStore |-> GetAuthenticatedAgent(h.sessionStore, cookie, rs2).sessionStore,
          cookie |-> cookie, out |-> UserData(cookie)]

\* load of routes/dashboard/+page.server.ts (createOAuthClient version):
\* cookie check, getUserAgent, the agent's calls
LegacyDashboardLoad(ss, cookie, rs) ==
  IF cookie = None THEN [sessionStore |-> ss, cookie |-> cookie, out |-> Redirect("/")]
  ELSE LET g == GetUserAgent(ss, cookie, rs) IN
    IF g.out.kind = "rejected"
      THEN [sessionStore |-> g.sessionStore, cookie |-> None, out |-> Redirect("/")]
    ELSE [sessionStore |-> g.sessionStore, cookie |-> cookie, out |-> UserData(cookie)]

\* ------------------------------------------------------------------ state
NumProcs == 2
Procs == 1..NumProcs
IdleProc == [pc |-> "idle", params |-> [state |-> None, code |-> None, error |-> None],
             session |-> NullSession]

\* two simultaneous requests that restore a session (dashboard loads)
Requesters == {"r1", "r2"}
IdleRestore == [pc |-> "idle", did |-> None, session |-> NullSession, refreshed |-> FALSE]

VARIABLES
  build,            \* which implementation the route handlers of this build import
  stateStore,       \* legacy: module-level `stateStore` Map
  sessionStore,     \* legacy: module-level `sessionStore` Map
  svcStateStore,    \* BlueskyOAuthService.stateStore
  svcSessionStore,  \* BlueskyOAuthService.sessionStore
  cookies,          \* bsky_session cookie of each browser
  nextKey,          \* number of request keys generated so far
  svcIssued,        \* history: keys generated by initiateLogin calls
  svcConsumed,      \* history: state values presented to completed handleCallback calls
  loggedOut,        \* history: subjects logged out and not authorized again since
  last,             \* history: the last completed operation and its outcome
  procs,            \* callback requests in flight inside client.callback
  reached,          \* history: per state value, the requests that got to the token exchange
  restores,         \* requests in flight inside client.restore
  instance,         \* blueskyServiceInstance: 0 for null, else the number of the instance
  created,          \* number of BlueskyService instances constructed so far
  developmentMode,  \* config.developmentMode of the service (NODE_ENV of the process)
  oauthClient       \* BlueskyOAuthService.oauthClient is set (not null)

vars == <<build, stateStore, sessionStore, svcStateStore, svcSessionStore, cookies,
          nextKey, svcIssued, svcConsumed, loggedOut, last, procs, reached, restores, instance, created,
          developmentMode, oauthClient>>

legacyVars == <<build, stateStore, sessionStore>>
svcVars == <<build, svcStateStore, svcSessionStore, instance, created,
            developmentMode, oauthClient>>
histVars == <<svcIssued, svcConsumed, loggedOut>>
concVars == <<procs, reached, restores>>

Init ==
  /\ build \in Impls
  /\ stateStore = EmptyMap
  /\ sessionStore = EmptyMap
  /\ svcStateStore = EmptyMap
  /\ svcSessionStore = EmptyMap
  /\ cookies = [b \in Browsers |-> None]
  /\ nextKey = 0
  /\ svcIssued = {}
  /\ svcConsumed = {}
  /\ loggedOut = {}
  /\ last = [op |-> "init"]
  /\ procs = [p \in Procs |-> IdleProc]
  /\ reached = [k \in Keys |-> {}]
  /\ restores = [r \in Requesters |-> IdleRestore]
  /\ instance = 0
  /\ created = 0
  /\ developmentMode \in (IF build = "service" THEN BOOLEAN ELSE {FALSE})
  /\ oauthClient = FALSE

\* crypto.randomUUID() answering with one and the same value on every call
FreshKeyFixed == KeyNames[1]

\* crypto.randomUUID(): a value no earlier call returned
FreshKey == KeyNames[nextKey + 1]

\* getBlueskyService that constructs a new BlueskyService on every call
GetBlueskyServiceNew(inst, n) == n + 1

\* getBlueskyService(): the module-level instance, constructed on first use
GetBlueskyService(inst, n) == IF inst = 0 THEN n + 1 ELSE inst

\* a handler obtains the service: the instance it gets, and the Maps of that
\* instance (those of a newly constructed one are empty)
ServiceInstance == GetBlueskyService(instance, created)
InstStateStore == IF ServiceInstance = instance THEN svcStateStore ELSE EmptyMap
InstSessionStore == IF ServiceInstance = instance THEN svcSessionStore ELSE EmptyMap
UseService ==
  /\ ServiceInstance <= MaxInstances
  /\ instance' = ServiceInstance
  /\ created' = IF ServiceInstance = instance THEN created ELSE created + 1
  /\ developmentMode' = developmentMode

\* getOAuthClient(): the client kept in this.oauthClient is returned unless
\* there is none or the service runs in development mode; otherwise a new
\* NodeOAuthClient is constructed and kept
GetOAuthClient(cached, dev) == [constructed |-> ~(cached /\ ~dev), cached |-> TRUE]

\* this.oauthClient of the instance in use (null in a new instance)
InstClient == IF ServiceInstance = instance THEN oauthClient ELSE FALSE
UseClient == oauthClient' = GetOAuthClient(InstClient, developmentMode).cached
KeepClient == oauthClient' = InstClient
NewClient == GetOAuthClient(InstClient, developmentMode).constructed

\* cleanup(): counts the entries, deletes none
Cleanup(st, ss, dev) ==
  [stateStore |-> st, sessionStore |-> ss,
   out |-> Resolved(IF dev THEN 0
                    ELSE Cardinality(DOMAIN ss) + Cardinality(DOMAIN st))]

\* the environment's answers that a call can meet: an exchange answer only
\* when the client gets as far as the exchange, a restore answer only when a
\* session is on file, a profile answer only after a session was obtained
NoExchange == [kind |-> "fail", sub |-> None, cred |-> None]
ExchangesFor(impl, st, ss, params) ==
  IF LibCallback(impl, st, ss, params, NoExchange).exchanged
    THEN ExchangeOutcomes ELSE {NoExchange}
ProfilesFor(impl, st, ss, params, ex) ==
  LET lib == LibCallback(impl, st, ss, params, ex) IN
  IF lib.out.kind = "resolved" /\ lib.out.value.session # NullSession
    THEN BOOLEAN ELSE {TRUE}
\* for the service the answers are the stubbed ones of a round trip: drawn
\* for every callback that carries a state and a code and no error
StubAnswersFor(params) ==
  IF params.state # None /\ params.code # None /\ params.error = None
    THEN ExchangeOutcomes ELSE {NoExchange}
StubProfilesFor(ex) == IF ex.kind = "ok" THEN BOOLEAN ELSE {TRUE}
NoRestore == [kind |-> "fresh", cred |-> None]
RestoresFor(impl, ss, d) ==
  IF AdapterGet(impl, "sessionStore", ss, d).found THEN RestoreOutcomes ELSE {NoRestore}

\* --------------------------------------------------------------- actions
InitiateLogin(envOk) ==
  /\ build = "service"
  /\ nextKey < NumKeys
  /\ UseService
  /\ UseClient
  /\ LET lib == LibAuthorize("service", InstStateStore, FreshKey, envOk) IN
       /\ svcStateStore' = lib.stateStore
       /\ last' = [op |-> "initiateLogin", inst |-> ServiceInstance, newClient |-> NewClient, key |-> FreshKey,
                   out |-> InitiateLoginOutcome(lib)]
  /\ svcSessionStore' = InstSessionStore
  /\ nextKey' = nextKey + 1
  /\ svcIssued' = svcIssued \cup {FreshKey}
  /\ UNCHANGED <<concVars, legacyVars, cookies, svcConsumed, loggedOut>>

\* GET of the root callback endpoint: BlueskyService.handleOAuthCallback(url,
\* cookies), which calls BlueskyOAuthService.handleCallback(url), then the
\* redirect
HandleOAuthCallback(b, params, ex, profOk) ==
  /\ build = "service"
  /\ UseService
  /\ UseClient
  /\ LET r == HandleCallback(InstStateStore, InstSessionStore, params, ex, profOk) IN
       /\ svcStateStore' = r.stateStore
       /\ svcSessionStore' = r.sessionStore
       /\ cookies' = [cookies EXCEPT ![b] = FacadeCookie(cookies[b], r.out.value)]
       /\ loggedOut' = IF r.out.value.success
                         THEN loggedOut \ {r.out.value.userDid} ELSE loggedOut
       /\ last' = [op |-> "handleCallback", inst |-> ServiceInstance, newClient |-> NewClient,
                   browser |-> b, params |-> params,
                   reused |-> params.state \in svcConsumed,
                   begun |-> params.state \in (svcIssued \ svcConsumed),
                   answer |-> ex, profOk |-> profOk,
                   lib |-> r.lib, exchanged |-> r.exchanged, out |-> r.out,
                   response |-> ServiceCallbackRedirect(r.out.value),
                   cookieSet |-> FacadeSetsCookie(r.out.value)]
  /\ svcConsumed' = IF params.state # None
                      THEN svcConsumed \cup {params.state} ELSE svcConsumed
  /\ UNCHANGED <<concVars, legacyVars, nextKey, svcIssued>>

ServiceGetAuthenticatedAgent(d, rs) ==
  /\ build = "service"
  /\ UseService
  /\ UseClient
  /\ LET r == GetAuthenticatedAgent(InstSessionStore, d, rs) IN
       /\ svcSessionStore' = r.sessionStore
       /\ last' = [op |-> "getAuthenticatedAgent", inst |-> ServiceInstance, newClient |-> NewClient,
                   did |-> d, lib |-> r.lib, out |-> r.out]
  /\ svcStateStore' = InstStateStore
  /\ UNCHANGED <<concVars, legacyVars, cookies, nextKey, histVars>>

ServiceHasValidSession(d, rs) ==
  /\ build = "service"
  /\ UseService
  /\ UseClient
  /\ LET r == HasValidSession(InstSessionStore, d, rs) IN
       /\ svcSessionStore' = r.sessionStore
       /\ last' = [op |-> "hasValidSession", inst |-> ServiceInstance, newClient |-> NewClient,
                   did |-> d, lib |-> r.lib, out |-> r.out]
  /\ svcStateStore' = InstStateStore
  /\ UNCHANGED <<concVars, legacyVars, cookies, nextKey, histVars>>

\* BlueskyService.logout(userDid, cookies)
FacadeLogout(b, d) ==
  /\ build = "service"
  /\ UseService
  /\ KeepClient
  /\ LET r == FacadeLogoutResult(InstSessionStore, cookies[b], d) IN
       /\ svcSessionStore' = r.sessionStore
       /\ cookies' = [cookies EXCEPT ![b] = r.cookie]
       /\ last' = [op |-> "logout", inst |-> ServiceInstance,
                   browser |-> b, did |-> d, out |-> r.out]
  /\ svcStateStore' = InstStateStore
  /\ loggedOut' = loggedOut \cup {d}
  /\ UNCHANGED <<concVars, legacyVars, nextKey, svcIssued, svcConsumed>>

\* GET of the logout endpoint (service version)
ServiceLogout(b) ==
  /\ build = "service"
  /\ IF cookies[b] # None
       THEN /\ UseService
            /\ KeepClient
            /\ LET r == ServiceLogoutGET(InstSessionStore, cookies[b]) IN
                 /\ svcSessionStore' = r.sessionStore
                 /\ cookies' = [cookies EXCEPT ![b] = r.cookie]
                 /\ last' = [op |-> "logoutGET", inst |-> ServiceInstance,
                             browser |-> b, did |-> cookies[b], out |-> r.out]
            /\ svcStateStore' = InstStateStore
            /\ loggedOut' = loggedOut \cup {cookies[b]}
       ELSE /\ LET r == ServiceLogoutGET(svcSessionStore, cookies[b]) IN
                 /\ cookies' = [cookies EXCEPT ![b] = r.cookie]
                 /\ last' = [op |-> "logoutGET", inst |-> instance,
                             browser |-> b, did |-> cookies[b], out |-> r.out]
            /\ UNCHANGED <<svcStateStore, svcSessionStore, instance, created, loggedOut,
                           developmentMode, oauthClient>>
  /\ UNCHANGED <<concVars, build, stateStore, sessionStore, nextKey, svcIssued, svcConsumed>>

\* resetBlueskyService()
ResetBlueskyService ==
  /\ build = "service"
  /\ instance # 0
  /\ created < MaxInstances
  /\ instance' = 0
  /\ last' = [op |-> "reset", inst |-> instance]
  /\ UNCHANGED <<concVars, build, stateStore, sessionStore, svcStateStore, svcSessionStore,
                 created, developmentMode, oauthClient, cookies, nextKey, histVars>>

\* BlueskyOAuthService.cleanup() on the service in use
ServiceCleanup ==
  /\ build = "service"
  /\ UseService
  /\ KeepClient
  /\ LET r == Cleanup(InstStateStore, InstSessionStore, developmentMode) IN
       /\ svcStateStore' = r.stateStore
       /\ svcSessionStore' = r.sessionStore
       /\ last' = [op |-> "cleanup", inst |-> ServiceInstance, out |-> r.out]
  /\ UNCHANGED <<concVars, legacyVars, cookies, nextKey, histVars>>

\* GET of the login endpoint (createOAuthClient version)
LegacyLogin(envOk) ==
  /\ build = "legacy"
  /\ nextKey < NumKeys
  /\ LET lib == LibAuthorize("legacy", stateStore, FreshKey, envOk) IN
       /\ stateStore' = lib.stateStore
       /\ last' = [op |-> "legacyLogin", key |-> FreshKey,
                   out |-> IF lib.out.kind = "rejected" THEN lib.out
                           ELSE Redirect("authorize")]
  /\ nextKey' = nextKey + 1
  /\ UNCHANGED <<concVars, sessionStore, svcVars, cookies, histVars>>

LegacyRootLoad(b, params, ex) ==
  /\ build = "legacy"
  /\ LET r == RootLoad(stateStore, sessionStore, cookies[b], params, ex) IN
       /\ stateStore' = r.stateStore
       /\ sessionStore' = r.sessionStore
       /\ cookies' = [cookies EXCEPT ![b] = r.cookie]
       /\ last' = [op |-> "rootLoad", browser |-> b, params |-> params,
                   answer |-> IF r.exchanged THEN ex ELSE NoExchange,
                   prior |-> IF r.exchanged /\ MapHas(sessionStore, ex.sub)
                               THEN sessionStore[ex.sub] ELSE NullSession,
                   called |-> r.called, lib |-> r.lib, exchanged |-> r.exchanged,
                   out |-> r.out, cookieSet |-> r.cookieSet]
  /\ UNCHANGED <<concVars, svcVars, nextKey, histVars>>

LegacyCallbackGET(b, params, ex, profOk) ==
  /\ build = "legacy"
  /\ LET r == CallbackGET(stateStore, sessionStore, cookies[b], params, ex, profOk) IN
       /\ stateStore' = r.stateStore
       /\ sessionStore' = r.sessionStore
       /\ cookies' = [cookies EXCEPT ![b] = r.cookie]
       /\ last' = [op |-> "callbackGET", browser |-> b, params |-> params,
                   answer |-> IF r.exchanged THEN ex ELSE NoExchange,
                   prior |-> IF r.exchanged /\ MapHas(sessionStore, ex.sub)
                               THEN sessionStore[ex.sub] ELSE NullSession,
                   called |-> r.called, lib |-> r.lib, exchanged |-> r.exchanged,
                   out |-> r.out, cookieSet |-> r.cookieSet]
  /\ UNCHANGED <<concVars, svcVars, nextKey, histVars>>

LegacyLogout(b) ==
  /\ build = "legacy"
  /\ LET r == LegacyLogoutGET(sessionStore, cookies[b]) IN
       /\ sessionStore' = r.sessionStore
       /\ cookies' = [cookies EXCEPT ![b] = r.cookie]
       /\ last' = [op |-> "legacyLogout", browser |-> b, did |-> cookies[b], out |-> r.out]
  /\ UNCHANGED <<concVars, stateStore, svcVars, nextKey, histVars>>

LegacyGetUserAgent(d, rs) ==
  /\ build = "legacy"
  /\ LET r == GetUserAgent(sessionStore, d, rs) IN
       /\ sessionStore' = r.sessionStore
       /\ last' = [op |-> "getUserAgent", did |-> d, lib |-> r.lib, out |-> r.out]
  /\ UNCHANGED <<concVars, stateStore, svcVars, cookies, nextKey, histVars>>

\* a request comes from a browser that holds the cookie the server gave it,
\* or from some other user agent, which sends whatever cookie it likes
Outsider == "outsider"
UserAgents == Browsers \cup {Outsider}
Presented(a) == IF a \in Browsers THEN {cookies[a]} ELSE Dids
Answered(a, cookie) ==
  cookies' = IF a \in Browsers THEN [cookies EXCEPT ![a] = cookie] ELSE cookies

\* the restore answers the two restores of a service load can meet
LoadRestoresFor(ss, cookie) ==
  IF cookie = None THEN {NoRestore} ELSE RestoresFor("service", ss, cookie)

ServiceProtectedLoad(page, a, cookie, rs, rs2) ==
  /\ build = "service"
  /\ LET ss == IF cookie = None THEN svcSessionStore ELSE InstSessionStore
         r == IF page = "dashboard" THEN DashboardLoad(ss, cookie, rs, rs2)
              ELSE TvGuideLoad(ss, cookie, rs, rs2)
     IN /\ svcSessionStore' = r.sessionStore
        /\ Answered(a, r.cookie)
        /\ last' = [op |-> page, agent |-> a, cookie |-> cookie,
                    valid |-> cookie # None /\ HasValidSession(ss, cookie, rs).out.value,
                    cookieAfter |-> r.cookie, out |-> r.out]
  /\ IF cookie = None
       THEN UNCHANGED <<svcStateStore, instance, created, developmentMode, oauthClient>>
       ELSE UseService /\ UseClient /\ svcStateStore' = InstStateStore
  /\ UNCHANGED <<concVars, legacyVars, nextKey, histVars>>

LegacyDashboard(a, cookie, rs) ==
  /\ build = "legacy"
  /\ LET r == LegacyDashboardLoad(sessionStore, cookie, rs) IN
       /\ sessionStore' = r.sessionStore
       /\ Answered(a, r.cookie)
       /\ last' = [op |-> "legacyDashboard", agent |-> a, cookie |-> cookie,
                   valid |-> cookie # None
                             /\ GetUserAgent(sessionStore, cookie, rs).out.kind = "resolved",
                   cookieAfter |-> r.cookie, out |-> r.out]
  /\ UNCHANGED <<concVars, stateStore, svcVars, nextKey, histVars>>

\* GET of the logout endpoint, requested by a user agent that is not a
\* browser of the model, with a cookie value of its choice
OutsiderServiceLogout(d) ==
  /\ build = "service"
  /\ UseService
  /\ KeepClient
  /\ LET r == ServiceLogoutGET(InstSessionStore, d) IN
       /\ svcSessionStore' = r.sessionStore
       /\ last' = [op |-> "outsiderLogout", inst |-> ServiceInstance, agent |-> Outsider,
                   cookie |-> d,
                   removed |-> MapHas(InstSessionStore, d) /\ ~MapHas(r.sessionStore, d),
                   out |-> r.out]
  /\ svcStateStore' = InstStateStore
  /\ loggedOut' = loggedOut \cup {d}
  /\ UNCHANGED <<concVars, legacyVars, cookies, nextKey, svcIssued, svcConsumed>>

OutsiderLegacyLogout(d) ==
  /\ build = "legacy"
  /\ LET r == LegacyLogoutGET(sessionStore, d) IN
       /\ sessionStore' = r.sessionStore
       /\ last' = [op |-> "outsiderLogout", agent |-> Outsider, cookie |-> d,
                   removed |-> MapHas(sessionStore, d) /\ ~MapHas(r.sessionStore, d),
                   out |-> r.out]
  /\ UNCHANGED <<concVars, stateStore, svcVars, cookies, nextKey, histVars>>

Next ==
  \/ \E envOk \in BOOLEAN : InitiateLogin(envOk)
  \/ \E b \in Browsers, params \in Params :
       \E ex \in StubAnswersFor(params) : \E profOk \in StubProfilesFor(ex) :
         HandleOAuthCallback(b, params, ex, profOk)
  \/ \E d \in Dids : \E rs \in RestoresFor("service", InstSessionStore, d) :
       ServiceGetAuthenticatedAgent(d, rs)
  \/ \E d \in Dids : \E rs \in RestoresFor("service", InstSessionStore, d) :
       ServiceHasValidSession(d, rs)
  \/ \E b \in Browsers, d \in Dids : FacadeLogout(b, d)
  \/ \E b \in Browsers : ServiceLogout(b)
  \/ ResetBlueskyService
  \/ ServiceCleanup
  \/ \E d \in Dids : OutsiderServiceLogout(d)
  \/ \E d \in Dids : OutsiderLegacyLogout(d)
  \/ \E page \in {"dashboard", "tv-guide"}, a \in UserAgents :
       \E cookie \in Presented(a) :
         \E rs \in LoadRestoresFor(InstSessionStore, cookie) :
           \E rs2 \in LoadRestoresFor(HasValidSession(InstSessionStore, cookie, rs).sessionStore,
                                      cookie) :
             ServiceProtectedLoad(page, a, cookie, rs, rs2)
  \/ \E a \in UserAgents : \E cookie \in Presented(a) :
       \E rs \in (IF cookie = None THEN {NoRestore}
                  ELSE RestoresFor("legacy", sessionStore, cookie)) :
         LegacyDashboard(a, cookie, rs)
  \/ \E envOk \in BOOLEAN : LegacyLogin(envOk)
  \/ \E b \in Browsers, params \in Params :
       \E ex \in ExchangesFor("legacy", stateStore, sessionStore, params) :
         LegacyRootLoad(b, params, ex)
  \/ \E b \in Browsers, params \in Params :
       \E ex \in ExchangesFor("legacy", stateStore, sessionStore, params) :
         \E profOk \in ProfilesFor("legacy", stateStore, sessionStore, params, ex) :
           LegacyCallbackGET(b, params, ex, profOk)
  \/ \E b \in Browsers : LegacyLogout(b)
  \/ \E d \in Dids : \E rs \in RestoresFor("legacy", sessionStore, d) :
       LegacyGetUserAgent(d, rs)

Spec == Init /\ [][Next]_vars

\* cleanup is run again and again (a periodic job); whether a callback ever
\* arrives for an open authorization request is up to the browser
SpecCleanup == Init /\ [][Next]_vars /\ WF_vars(ServiceCleanup)

\* ------------------------------------------- callback requests interleaved
\* Each awaited call inside client.callback (stateStore.get, stateStore.del,
\* the token exchange, sessionStore.set) is a step of its own; requests of
\* different browsers interleave between the steps.
StateStoreOfBuild == IF build = "legacy" THEN stateStore ELSE svcStateStore
SessionStoreOfBuild == IF build = "legacy" THEN sessionStore ELSE svcSessionStore

SetStateStore(m) ==
  IF build = "legacy" THEN stateStore' = m /\ UNCHANGED svcStateStore
  ELSE svcStateStore' = m /\ UNCHANGED stateStore
SetSessionStore(m) ==
  IF build = "legacy" THEN sessionStore' = m /\ UNCHANGED svcSessionStore
  ELSE svcSessionStore' = m /\ UNCHANGED sessionStore

seqVars == <<build, cookies, nextKey, svcIssued, svcConsumed, loggedOut, last,
            instance, created, developmentMode, oauthClient>>
allStores == <<stateStore, sessionStore, svcStateStore, svcSessionStore>>

\* a handler passes the query parameters to client.callback
CbStart(p, params) ==
  /\ procs[p].pc = "idle"
  /\ IsRealOAuthCallback(params)
  /\ procs' = [procs EXCEPT ![p] = [pc |-> "get", params |-> params, session |-> NullSession]]
  /\ UNCHANGED <<seqVars, allStores, reached, restores>>

\* await stateStore.get(state)
CbGet(p) ==
  /\ procs[p].pc = "get"
  /\ LET g == AdapterGet(build, "stateStore", StateStoreOfBuild, procs[p].params.state) IN
       procs' = [procs EXCEPT ![p].pc = IF g.threw \/ ~g.found THEN "failed" ELSE "del"]
  /\ UNCHANGED <<seqVars, allStores, reached, restores>>

\* await stateStore.del(state), then the error / code checks
CbDel(p) ==
  /\ procs[p].pc = "del"
  /\ LET dl == AdapterDel(build, "stateStore", StateStoreOfBuild, procs[p].params.state) IN
       /\ SetStateStore(dl.map)
       /\ procs' = [procs EXCEPT ![p].pc =
            IF dl.threw \/ procs[p].params.error # None \/ procs[p].params.code = None
              THEN "failed" ELSE "exchange"]
  /\ UNCHANGED <<seqVars, sessionStore, svcSessionStore, reached, restores>>

\* the code-for-token exchange
CbExchange(p, ex) ==
  /\ procs[p].pc = "exchange"
  /\ reached' = [reached EXCEPT ![procs[p].params.state] = @ \cup {p}]
  /\ procs' = [procs EXCEPT ![p] =
       IF ex.kind = "ok"
         THEN [pc |-> "set", params |-> procs[p].params, session |-> Session(ex.sub, ex.cred)]
         ELSE [pc |-> "failed", params |-> procs[p].params, session |-> NullSession]]
  /\ UNCHANGED <<seqVars, allStores, restores>>

\* await sessionStore.set(sub, session); the client yields the session
CbSet(p) ==
  /\ procs[p].pc = "set"
  /\ LET w == AdapterSet(build, "sessionStore", SessionStoreOfBuild,
                         procs[p].session.sub, procs[p].session) IN
       /\ SetSessionStore(w.map)
       /\ procs' = [procs EXCEPT ![p].pc = IF w.threw THEN "failed" ELSE "session"]
  /\ UNCHANGED <<seqVars, stateStore, svcStateStore, reached, restores>>

\* the handler has answered; the slot serves the next request
CbFinish(p) ==
  /\ procs[p].pc \in {"failed", "session"}
  /\ procs' = [procs EXCEPT ![p] = IdleProc]
  /\ reached' = [k \in Keys |-> reached[k] \ {p}]
  /\ UNCHANGED <<seqVars, allStores, restores>>

NextConc ==
  \/ \E envOk \in BOOLEAN : InitiateLogin(envOk)
  \/ \E envOk \in BOOLEAN : LegacyLogin(envOk)
  \/ \E p \in Procs, params \in Params : CbStart(p, params)
  \/ \E p \in Procs : CbGet(p)
  \/ \E p \in Procs : CbDel(p)
  \/ \E p \in Procs, ex \in ExchangeOutcomes : CbExchange(p, ex)
  \/ \E p \in Procs : CbSet(p)
  \/ \E p \in Procs : CbFinish(p)

SpecConc == Init /\ [][NextConc]_vars

\* --------------------------------------------- restore requests interleaved
\* Each awaited call inside client.restore (sessionStore.get, the refresh
\* exchange, sessionStore.set) is a step of its own.
\* a handler calls client.restore(userDid)
RsStart(r, d) ==
  /\ restores[r].pc = "idle"
  /\ restores' = [restores EXCEPT ![r] = [IdleRestore EXCEPT !.pc = "get", !.did = d]]
  /\ UNCHANGED <<seqVars, allStores, procs, reached>>

\* await sessionStore.get(sub)
RsGet(r) ==
  /\ restores[r].pc = "get"
  /\ LET g == AdapterGet(build, "sessionStore", SessionStoreOfBuild, restores[r].did) IN
       restores' = [restores EXCEPT ![r] =
         IF g.threw \/ ~g.found THEN [@ EXCEPT !.pc = "failed"]
         ELSE [@ EXCEPT !.pc = "loaded", !.session = SessionStoreOfBuild[restores[r].did]]]
  /\ UNCHANGED <<seqVars, allStores, procs, reached>>

\* the stored credentials are fresh, or stale and sent to the refresh exchange
RsRefresh(r, rs) ==
  /\ restores[r].pc = "loaded"
  /\ restores' = [restores EXCEPT ![r] =
       IF rs.kind = "fresh" THEN [@ EXCEPT !.pc = "restored"]
       ELSE IF rs.kind = "refresh_fail" THEN [@ EXCEPT !.pc = "failed", !.session = NullSession]
       ELSE [@ EXCEPT !.pc = "set", !.session = Session(restores[r].did, rs.cred),
                      !.refreshed = TRUE]]
  /\ UNCHANGED <<seqVars, allStores, procs, reached>>

\* await sessionStore.set(sub, refreshed session)
RsSet(r) ==
  /\ restores[r].pc = "set"
  /\ LET w == AdapterSet(build, "sessionStore", SessionStoreOfBuild,
                         restores[r].did, restores[r].session) IN
       /\ SetSessionStore(w.map)
       /\ restores' = [restores EXCEPT ![r].pc = IF w.threw THEN "failed" ELSE "restored"]
  /\ UNCHANGED <<seqVars, stateStore, svcStateStore, procs, reached>>

\* the handler has answered; the slot serves the next request
RsFinish(r) ==
  /\ restores[r].pc \in {"failed", "restored"}
  /\ restores' = [restores EXCEPT ![r] = IdleRestore]
  /\ UNCHANGED <<seqVars, allStores, procs, reached>>

\* The requests start from any content completed callbacks leave in the
\* session Map: with the legacy adapters every Map of sessions keyed by their
\* subject, with the adapters of BlueskyOAuthService the empty Map only.
InitRefresh ==
  /\ build \in Impls
  /\ stateStore = EmptyMap
  /\ sessionStore \in (IF build = "legacy" THEN SessionStores ELSE {EmptyMap})
  /\ svcStateStore = EmptyMap
  /\ svcSessionStore = EmptyMap
  /\ cookies = [b \in Browsers |-> None]
  /\ nextKey = 0
  /\ svcIssued = {}
  /\ svcConsumed = {}
  /\ loggedOut = {}
  /\ last = [op |-> "init"]
  /\ procs = [p \in Procs |-> IdleProc]
  /\ reached = [k \in Keys |-> {}]
  /\ restores = [r \in Requesters |-> IdleRestore]
  /\ instance = 0
  /\ created = 0
  /\ developmentMode \in (IF build = "service" THEN BOOLEAN ELSE {FALSE})
  /\ oauthClient = FALSE

NextRefresh ==
  \/ \E r \in Requesters, d \in Dids : RsStart(r, d)
  \/ \E r \in Requesters : RsGet(r)
  \/ \E r \in Requesters, rs \in RestoreOutcomes : RsRefresh(r, rs)
  \/ \E r \in Requesters : RsSet(r)
  \/ \E r \in Requesters : RsFinish(r)

SpecRefresh == InitRefresh /\ [][NextRefresh]_vars

\* --------------------------------------- a logout among restores in flight
\* GET of the logout endpoint for the cookie d, while restores are under way:
\* its one step on the session Map is the delete
RsLogout(d) ==
  /\ SetSessionStore(IF build = "legacy"
                       THEN LegacyLogoutGET(sessionStore, d).sessionStore
                       ELSE ServiceLogoutGET(svcSessionStore, d).sessionStore)
  /\ loggedOut' = loggedOut \cup {d}
  /\ UNCHANGED <<build, cookies, nextKey, svcIssued, svcConsumed, last, instance, created,
                 developmentMode, oauthClient, stateStore, svcStateStore, concVars>>

NextLogoutRace ==
  \/ NextRefresh
  \/ \E d \in Dids : RsLogout(d)

SpecLogoutRace == InitRefresh /\ [][NextLogoutRace]_vars

\* ================================================================ claims
CallbackOps == {"handleCallback", "rootLoad", "callbackGET"}

\* the call rejects with an error whose message is msg
FailsWith(out, msg) == out.kind = "rejected" /\ out.message = msg

\* the handler reported success to the browser
HandlerSucceeded(l) ==
  IF l.op = "handleCallback" THEN l.out.value.success
  ELSE IF l.op = "rootLoad" THEN l.out.kind = "data" /\ l.out.success
  ELSE l.out = Redirect("/dashboard")

\* the session Map of the running build
Sessions == IF build = "legacy" THEN sessionStore ELSE svcSessionStore

\* C1: a state value presented to a completed handleCallback call is not in
\* the State Store afterwards, and a later handleCallback that presents the
\* same state value rejects with the invalid-state error and does not get as
\* far as creating a session.
C1_StateSingleUse ==
  (last.op = "handleCallback" /\ last.params.state # None) =>
    /\ ~MapHas(svcStateStore, last.params.state)
    /\ (last.reused => FailsWith(last.out, MsgUnknownState) /\ ~last.exchanged)

\* C3: a handleCallback call that carries a code and the state of an open
\* authorization request (begun by initiateLogin, not yet presented), and
\* whose token exchange is answered with a token set for subject d, succeeds
\* with userDid d, leaves a session keyed by d in the Session Store and no
\* entry for the state in the State Store.
C3_SuccessfulCallback ==
  (/\ last.op = "handleCallback"
   /\ last.begun /\ last.params.code # None /\ last.params.error = None
   /\ last.answer.kind = "ok" /\ last.profOk) =>
    /\ last.out.kind = "resolved" /\ last.out.value.success
    /\ last.out.value.userDid = last.answer.sub
    /\ MapHas(svcSessionStore, last.answer.sub)
    /\ ~MapHas(svcStateStore, last.params.state)

\* C4: for a subject logged out and not authorized again since, isValid
\* returns false and forSubject rejects with the no-session error.
C4_AfterLogout ==
  /\ (last.op = "hasValidSession" /\ last.did \in loggedOut) =>
       last.out = Resolved(FALSE)
  /\ (last.op = "getAuthenticatedAgent" /\ last.did \in loggedOut) =>
       FailsWith(last.out, MsgNoSession)

C7_DeniedCallback ==
  (/\ last.op = "handleCallback"
   /\ last.params.error = "access_denied" /\ last.begun) =>
    /\ FailsWith(last.out, "access_denied")
    /\ ~MapHas(svcStateStore, last.params.state)

\* C8: handleCallback on a callback with neither code nor error (and the
\* state of an open authorization request) rejects with the missing-code
\* error and attempts no token exchange.
C8_MissingCode ==
  (/\ last.op = "handleCallback"
   /\ last.params.code = None /\ last.params.error = None /\ last.begun) =>
    /\ FailsWith(last.out, MsgMissingCode)
    /\ ~last.exchanged

\* C9: when client.callback rejects or yields no session, handleCallback
\* rejects: the failure reaches the caller as an error, the call does not
\* complete normally.
C9_ExchangeFailureReachesCaller ==
  (/\ last.op = "handleCallback"
   /\ last.params.code # None /\ last.params.error = None /\ last.begun
   /\ (last.lib.kind = "rejected" \/ last.lib.value.session = NullSession)) =>
    last.out.kind = "rejected"

\* C10: getAuthenticatedAgent for a subject without an entry in the Session
\* Store rejects with the no-session error, and the Session Store still has
\* no entry for it.
C10_NoSession ==
  (last.op = "getAuthenticatedAgent" /\ ~MapHas(svcSessionStore, last.did)) =>
    FailsWith(last.out, MsgNoSession)

\* C2: of the callback requests in flight that carry the same state value,
\* at most one gets to the token exchange (and so at most one yields a
\* session), however their State Store get and del steps interleave.
C2_AtMostOneExchange ==
  \A k \in Keys : Cardinality(reached[k]) <= 1

\* ---- C6: credentials do not flow into what the browser sees
CredIndex(c) == CHOOSE i \in 1..NumCreds : CredNames[i] = c
\* the same run with other credential material
OtherCred(c) == IF c \in Creds THEN CredNames[(CredIndex(c) % NumCreds) + 1] ELSE c
OtherSession(s) == Session(s.sub, OtherCred(s.cred))
OtherStore(ss) == [d \in DOMAIN ss |-> OtherSession(ss[d])]
OtherAnswer(ex) == [ex EXCEPT !.cred = OtherCred(@)]

MsgClient == "client construction failed"
RestoreFailures == {MsgTypeError, MsgRefresh, MsgClient}

\* C11: hasValidSession completes normally whatever happens below it, and
\* with the result false whenever the client construction, the store read or
\* the restore failed.
C11_IsValidNeverThrows ==
  /\ last.op = "hasValidSession" =>
       /\ last.out.kind = "resolved"
       /\ last.lib.kind = "rejected" => last.out = Resolved(FALSE)
  /\ \A msg \in RestoreFailures :
       HasValidSessionOutcome([out |-> Rejected(msg)]) = Resolved(FALSE)

C11_Witness ==
  /\ last.op = "hasValidSession"
  /\ last.lib.kind = "rejected"
  /\ last.out = Resolved(FALSE)

\* C12: logout completes without raising for a subject with or without a
\* stored session, the bsky_session cookie is cleared and the subject has no
\* session afterwards; a second logout in a row completes as well and
\* changes nothing; the logout endpoint always answers with a redirect to '/'.
C12_LogoutNeverFails ==
  /\ last.op = "logout" =>
       /\ last.out.kind = "resolved"
       /\ cookies[last.browser] = None
       /\ ~MapHas(svcSessionStore, last.did)
  /\ last.op = "logoutGET" =>
       /\ last.out = Redirect("/")
       /\ cookies[last.browser] = None
       /\ ~MapHas(svcSessionStore, last.did)
  /\ \A ss \in SessionStores, d \in Dids, c \in Dids \cup {None} :
       LET r1 == FacadeLogoutResult(ss, c, d)
           r2 == FacadeLogoutResult(r1.sessionStore, r1.cookie, d)
       IN
       /\ r1.out.kind = "resolved" /\ r2.out.kind = "resolved"
       /\ r1.cookie = None /\ ~MapHas(r1.sessionStore, d)
       /\ r1.sessionStore = MapDelete(ss, d)
       /\ r2.sessionStore = r1.sessionStore /\ r2.cookie = r1.cookie

C12_Witness ==
  /\ last.op = "logout"
  /\ last.out.kind = "resolved"
  /\ cookies[last.browser] = None
  /\ Logout(svcSessionStore, last.did).sessionStore = svcSessionStore

C15_RefreshLastWriteWins ==
  [][ \A r \in Requesters :
        (restores[r].pc = "set" /\ restores'[r].pc = "restored") =>
          /\ MapHas(Sessions', restores[r].did)
          /\ Sessions'[restores[r].did] = restores[r].session
          /\ \A d \in DOMAIN Sessions : d # restores[r].did =>
                MapHas(Sessions', d) /\ Sessions'[d] = Sessions[d]
    ]_vars

\* both requests refreshed the same subject, and the store holds what one of
\* them wrote over the other's
C15_Witness ==
  \E r1, r2 \in Requesters :
    /\ r1 # r2
    /\ restores[r1].pc = "restored" /\ restores[r1].refreshed
    /\ restores[r2].pc = "restored" /\ restores[r2].refreshed
    /\ restores[r1].did = restores[r2].did
    /\ restores[r1].session # restores[r2].session
    /\ MapHas(Sessions, restores[r2].did)
    /\ Sessions[restores[r2].did] = restores[r2].session

\* ---- C16: one session per subject
\* the session client.callback or client.restore yielded in the last call
YieldedSession(l) ==
  IF l.op \in CallbackOps \cup {"getUserAgent", "getAuthenticatedAgent", "hasValidSession"}
       /\ l.lib.kind = "resolved"
    THEN l.lib.value.session ELSE NullSession

\* C16: every entry of the Session Store is the session of the subject it is
\* keyed by, so a subject has at most one; a callback or a restore that
\* yields a session for a subject leaves exactly that session under the
\* subject's key, in place of what was there, and every other subject's
\* entry as it was.
C16_OneSessionPerSubject ==
  [][ /\ \A d \in DOMAIN Sessions' : Sessions'[d].sub = d
      /\ YieldedSession(last') # NullSession =>
           LET s == YieldedSession(last') IN
           /\ MapHas(Sessions', s.sub) /\ Sessions'[s.sub] = s
           /\ \A d \in Dids \ {s.sub} :
                /\ MapHas(Sessions', d) <=> MapHas(Sessions, d)
                /\ MapHas(Sessions, d) => Sessions'[d] = Sessions[d]
    ]_vars

\* a second callback for a subject replaced the session it had
C16_Witness ==
  /\ last.op \in {"rootLoad", "callbackGET"}
  /\ last.answer.kind = "ok"
  /\ last.prior # NullSession
  /\ last.prior # Session(last.answer.sub, last.answer.cred)
  /\ Sessions[last.answer.sub] = Session(last.answer.sub, last.answer.cred)

\* ---- C17: the store contract of the adapters
\* every content the state Map can have
StateStores == UNION {{[k \in K |-> StateData(k)]} : K \in SUBSET Keys}

\* set stores without raising and overwrites, get after set finds the entry,
\* get of an absent key reports 'not found' without raising, del removes the
\* entry and raises nothing when the key is absent
StoreContract(impl, field, m, k, v) ==
  LET w == AdapterSet(impl, field, m, k, v)
      g == AdapterGet(impl, field, w.map, k)
      dl == AdapterDel(impl, field, w.map, k)
      g2 == AdapterGet(impl, field, dl.map, k)
      d2 == AdapterDel(impl, field, dl.map, k)
  IN
  /\ ~w.threw /\ MapHas(w.map, k) /\ w.map[k] = v
  /\ ~g.threw /\ g.found
  /\ ~dl.threw /\ ~MapHas(dl.map, k)
  /\ ~g2.threw /\ ~g2.found
  /\ ~d2.threw /\ d2.map = dl.map

\* C17: the stateStore and sessionStore adapters of BlueskyOAuthService keep
\* the store contract on every content of their Maps, and a key written by
\* initiateLogin is in the State Store afterwards.
C17_AdapterContract ==
  /\ \A m \in StateStores, k \in Keys :
       StoreContract("service", "stateStore", m, k, StateData(k))
  /\ \A m \in SessionStores, d \in Dids, c \in Creds :
       StoreContract("service", "sessionStore", m, d, Session(d, c))
  /\ (last.op = "initiateLogin" /\ last.out.kind = "resolved") =>
       MapHas(svcStateStore, last.key)

\* the adapters of the legacy createOAuthClient keep the contract
C17_LegacyAdapters ==
  /\ \A m \in StateStores, k \in Keys :
       StoreContract("legacy", "stateStore", m, k, StateData(k))
  /\ \A m \in SessionStores, d \in Dids, c \in Creds :
       StoreContract("legacy", "sessionStore", m, d, Session(d, c))

\* ---- C18: request keys
\* the keys generated so far in the life of the process
IssuedKeys == {KeyNames[i] : i \in 1..nextKey}

\* C18: a login generates a state value that no earlier login of the process
\* generated, so it is the key of no request still open in the State Store;
\* the State Store keeps every open request under its own key.
C18_StateUnique ==
  [][ /\ (last'.op \in {"initiateLogin", "legacyLogin"} /\ nextKey' # nextKey) =>
           /\ last'.key \notin IssuedKeys
           /\ ~MapHas(stateStore, last'.key) /\ ~MapHas(svcStateStore, last'.key)
           /\ \A k \in DOMAIN stateStore : MapHas(stateStore', k) /\ stateStore'[k] = stateStore[k]
      /\ \A k \in DOMAIN stateStore' : stateStore'[k] = StateData(k)
      /\ \A k \in DOMAIN svcStateStore' : svcStateStore'[k] = StateData(k)
    ]_vars

\* two authorization requests open at once, each under its own key
C18_Witness ==
  /\ last.op = "legacyLogin"
  /\ Cardinality(DOMAIN stateStore) = 2
  /\ MapHas(stateStore, last.key)

\* ---- C19: the service singleton
ServiceOps ==
  {"initiateLogin", "handleCallback", "getAuthenticatedAgent", "hasValidSession",
   "logout", "logoutGET"}

CallbackFailed(l) ==
  /\ l.op \in CallbackOps
  /\ l.op \in {"rootLoad", "callbackGET"} => l.called
  /\ l.lib.kind = "rejected" \/ l.lib.value.session = NullSession

\* what the handler answered to the browser
HandlerResponse(l) == IF l.op = "handleCallback" THEN l.response ELSE l.out

\* C20: whenever client.callback fails in a callback handler (consent denied,
\* code missing, state unknown, exchange failed), the handler answers with
\* the redirect to '/?error=oauth_failed', the same for every kind of
\* failure, and the bsky_session cookie stays as it was.
C20_FailureRedirect ==
  [][ CallbackFailed(last') =>
        /\ HandlerResponse(last') = Redirect("/?error=oauth_failed")
        /\ ~last'.cookieSet
        /\ cookies' = cookies
    ]_vars

\* consent denied on an open authorization request
C20_Witness ==
  /\ last.op = "callbackGET"
  /\ last.lib = Rejected("access_denied")
  /\ last.out = Redirect("/?error=oauth_failed")
  /\ ~MapHas(stateStore, last.params.state)

\* ---- C21: the root page load on requests that are no callback
\* C21: load of the root page calls client.callback only on a request that
\* carries both `code` and `state`; on every other request it makes no token
\* exchange, leaves the State Store, the Session Store and the cookies as
\* they were, and returns isOAuthCallback = false with hasError true exactly
\* when `error` is 'oauth_failed'.
C21_RootLoadNonCallback ==
  [][ last'.op = "rootLoad" =>
        /\ last'.called <=> (last'.params.code # None /\ last'.params.state # None)
        /\ ~last'.called =>
             /\ ~last'.exchanged
             /\ stateStore' = stateStore /\ sessionStore' = sessionStore
             /\ cookies' = cookies
             /\ last'.out.kind = "data"
             /\ last'.out.isOAuthCallback = FALSE
             /\ last'.out.hasError <=> (last'.params.error = "oauth_failed")
    ]_vars

\* the app's own marker on the URL, while an authorization request is open
C21_Witness ==
  /\ last.op = "rootLoad"
  /\ last.params.error = "oauth_failed" /\ last.params.code = None
  /\ ~last.called
  /\ last.out.kind = "data" /\ last.out.hasError /\ ~last.out.isOAuthCallback
  /\ DOMAIN stateStore # {}

\* ---- C22: the profile fetch after a successful exchange
\* C22: when the token exchange yields a session for a subject and the
\* profile fetch after it fails, the callback still succeeds for that
\* subject: handleCallback reports success with the subject as userDid and
\* the facade sets the cookie; the callback endpoint sets the cookie and
\* redirects to the dashboard.
C22_ProfileBestEffort ==
  /\ (last.op = "handleCallback" /\ last.answer.kind = "ok" /\ ~last.profOk) =>
       LET yielded == [out |-> Resolved([session |->
                         Session(last.answer.sub, last.answer.cred)])]
           r == HandleCallbackOutcome(yielded, last.profOk)
       IN
       /\ r.kind = "resolved" /\ r.value.success
       /\ r.value.userDid = last.answer.sub
       /\ FacadeSetsCookie(r.value)
  /\ (/\ last.op = "callbackGET"
      /\ last.lib.kind = "resolved" /\ last.lib.value.session # NullSession) =>
       /\ last.cookieSet
       /\ cookies[last.browser] = last.lib.value.session.sub
       /\ last.out = Redirect("/dashboard")

\* ---- C23: the life of an authorization request
\* C23: every authorization request state written to the State Store is
\* removed from it at some later time, by the callback that presents it or,
\* when no callback comes, by the cleanup that runs from time to time.
C23_StateEventuallyRemoved ==
  \A k \in Keys :
    MapHas(StateStoreOfBuild, k) ~> ~MapHas(StateStoreOfBuild, k)

\* ---- C24: a failed authorize
\* the error the tests of initiateLogin expect
MsgAuthUrl == "Failed to generate authorization URL"

\* C24: when client.authorize fails, initiateLogin rejects with the
\* authorization set-up error, whose message is 'Failed to generate
\* authorization URL' with nothing put in front of it.
C24_AuthorizeFailureReported ==
  (last.op = "initiateLogin" /\ last.out.kind = "rejected")
    => (last.out.prefix = "" /\ last.out.message = MsgAuthUrl)

\* ------------------------------------------------------- BlueskyAPIService
\* api.ts names BlueskyError in an `import type` list, which is erased when
\* the file is compiled: at run time the identifier is bound to nothing, and
\* `new BlueskyError(...)` and `error instanceof BlueskyError` raise a
\* ReferenceError
BlueskyErrorIsValue == FALSE

DemoTypes == {"profile", "timeline", "author-feed", "post-thread", "likes",
              "following", "followers"}
DemoInputs == DemoTypes \cup {"unknown"}
AgentCalls == {"getProfile", "getTimeline", "getAuthorFeed", "getPostThread",
               "getActorLikes", "getFollows", "getFollowers"}
\* what a failing agent call fails with
ErrorKinds == {"scope", "unauthorized", "rate", "notfound", "other"}

Returned(resp) == [kind |-> "returned", value |-> resp]
Threw(err) == [kind |-> "threw", err |-> err]
APISuccess(empty) == [success |-> TRUE, code |-> None, empty |-> empty]
APIFailure(code) == [success |-> FALSE, code |-> code, empty |-> TRUE]

AgentErr(k) == [type |-> "agent", code |-> k]
ReferenceErr == [type |-> "reference", code |-> "ReferenceError"]
BlueskyErr(c) == [type |-> "bluesky", code |-> c]

\* handleAPIError: the BlueskyError for an error, or the ReferenceError that
\* constructing it raises
HandleAPIError(err) ==
  IF ~BlueskyErrorIsValue THEN [threw |-> TRUE, err |-> ReferenceErr]
  ELSE [threw |-> FALSE,
        err |-> BlueskyErr(
          IF err.type # "agent" THEN "API_ERROR"
          ELSE CASE err.code = "scope" -> "INSUFFICIENT_SCOPE"
                 [] err.code = "unauthorized" -> "AUTH_REQUIRED"
                 [] err.code = "rate" -> "RATE_LIMITED"
                 [] err.code = "notfound" -> "NOT_FOUND"
                 [] OTHER -> "API_ERROR")]

\* createErrorResponse: `error instanceof BlueskyError` comes first
CreateErrorResponse(err) ==
  IF ~BlueskyErrorIsValue THEN Threw(ReferenceErr)
  ELSE LET be == IF err.type = "bluesky" THEN err ELSE HandleAPIError(err).err
       IN Returned(APIFailure(be.code))

\* getProfile and getPostThread: `throw this.handleAPIError(...)`
GetProfile(ok, k) ==
  IF ok["getProfile"] THEN Returned(APISuccess(FALSE))
  ELSE Threw(HandleAPIError(AgentErr(k)).err)
GetPostThread(ok, k) ==
  IF ok["getPostThread"] THEN Returned(APISuccess(FALSE))
  ELSE Threw(HandleAPIError(AgentErr(k)).err)
\* the others: `return this.createErrorResponse(...)`
GetTimelineEnriched(ok, k) ==
  IF ok["getTimeline"] THEN Returned(APISuccess(FALSE))
  ELSE CreateErrorResponse(AgentErr(k))
GetAuthorFeedEnriched(ok, k, empty) ==
  IF ok["getAuthorFeed"] /\ ok["getProfile"] THEN Returned(APISuccess(empty))
  ELSE CreateErrorResponse(AgentErr(k))
GetLikes(ok, k) ==
  IF ok["getActorLikes"] THEN Returned(APISuccess(FALSE))
  ELSE CreateErrorResponse(AgentErr(k))
GetFollowsWithTotals(ok, k) ==
  IF ok["getFollows"] /\ ok["getProfile"] THEN Returned(APISuccess(FALSE))
  ELSE CreateErrorResponse(AgentErr(k))
GetFollowersWithTotals(ok, k) ==
  IF ok["getFollowers"] /\ ok["getProfile"] THEN Returned(APISuccess(FALSE))
  ELSE CreateErrorResponse(AgentErr(k))

ExecuteDemoAPI(ok, k, empty, demo) ==
  LET r ==
    CASE demo = "profile" -> GetProfile(ok, k)
      [] demo = "timeline" -> GetTimelineEnriched(ok, k)
      [] demo = "author-feed" -> GetAuthorFeedEnriched(ok, k, empty)
      [] demo = "post-thread" ->
           LET authorFeed == GetAuthorFeedEnriched(ok, k, empty) IN
           IF authorFeed.kind = "threw" THEN authorFeed
           ELSE IF authorFeed.value.success /\ ~authorFeed.value.empty
             THEN GetPostThread(ok, k)
           ELSE Returned(APIFailure("NO_POSTS"))
      [] demo = "likes" -> GetLikes(ok, k)
      [] demo = "following" -> GetFollowsWithTotals(ok, k)
      [] demo = "followers" -> GetFollowersWithTotals(ok, k)
      [] OTHER -> Returned(APIFailure("UNKNOWN_DEMO"))
  IN IF r.kind = "threw" THEN CreateErrorResponse(r.err) ELSE r

\* one call of executeDemoAPI on inputs drawn at the start
InitDemo ==
  /\ build = "service"
  /\ stateStore = EmptyMap
  /\ sessionStore = EmptyMap
  /\ svcStateStore = EmptyMap
  /\ svcSessionStore = EmptyMap
  /\ cookies = [b \in Browsers |-> None]
  /\ nextKey = 0
  /\ svcIssued = {}
  /\ svcConsumed = {}
  /\ loggedOut = {}
  /\ \E demo \in DemoInputs, ok \in [AgentCalls -> BOOLEAN],
        k \in ErrorKinds, empty \in BOOLEAN :
       last = [op |-> "demoInput", demo |-> demo, ok |-> ok,
               errKind |-> k, empty |-> empty]
  /\ procs = [p \in Procs |-> IdleProc]
  /\ reached = [k \in Keys |-> {}]
  /\ restores = [r \in Requesters |-> IdleRestore]
  /\ instance = 0
  /\ created = 0
  /\ developmentMode = FALSE
  /\ oauthClient = FALSE

ExecuteDemo ==
  /\ last.op = "demoInput"
  /\ last' = [op |-> "executeDemoAPI", demo |-> last.demo, ok |-> last.ok,
              empty |-> last.empty,
              out |-> ExecuteDemoAPI(last.ok, last.errKind, last.empty, last.demo)]
  /\ UNCHANGED <<legacyVars, svcVars, cookies, nextKey, histVars, concVars>>

NextDemo == ExecuteDemo

SpecDemo == InitDemo /\ [][NextDemo]_vars

\* ---- C25: executeDemoAPI
\* C25: executeDemoAPI never throws: whatever the demo type and whichever
\* agent call fails, it returns a response.
C25_ExecuteDemoNeverThrows ==
  last.op = "executeDemoAPI" => last.out.kind = "returned"

\* ---- C26: stores and client re-creation
\* C26: on one service, a callback for an authorization request begun by
\* initiateLogin and not yet consumed finds the stored state, whether
\* getOAuthClient built a new client for the call or returned the cached one.
C26_StateSurvivesRecreation ==
  (last.op = "handleCallback" /\ created = 1 /\ last.begun)
    => (~FailsWith(last.lib, MsgTypeError) /\ ~FailsWith(last.lib, MsgUnknownState))

\* ---- C27: the protected page loads
LoadOps == {"dashboard", "tv-guide", "legacyDashboard"}

\* C27: a protected load gives page data for d only to a request whose
\* cookie is d and whose validity check succeeded in that request; without a
\* cookie it redirects to '/' and leaves the cookie as it was; with a cookie
\* whose subject has no valid session it deletes the cookie and redirects
\* to '/'.
C27_ProtectedLoads ==
  last.op \in LoadOps =>
    /\ last.out.kind = "data" =>
         (last.cookie # None /\ last.out.user = last.cookie /\ last.valid)
    /\ last.cookie = None =>
         (last.out = Redirect("/") /\ last.cookieAfter = last.cookie)
    /\ (last.cookie # None /\ ~last.valid) =>
         (last.out = Redirect("/") /\ last.cookieAfter = None)

\* a browser that holds a cookie is given its page data
C27_Witness ==
  /\ last.op \in LoadOps
  /\ last.agent \in Browsers
  /\ last.out.kind = "data"

\* ---- C28: logout and restores in flight
\* C28: once the logout of d has returned, the Session Store holds no entry
\* for d (no callback follows here), also when a restore of d that began
\* before the logout writes its refreshed session afterwards.
C28_LogoutFinal ==
  \A d \in Dids : d \in loggedOut => ~MapHas(SessionStoreOfBuild, d)

\* ---- C29: a failed callback and the sessions
\* C29: a callback in which client.callback fails (error parameter, missing
\* code, unknown or used state, exchange failure) leaves the Session Store
\* exactly as it was before the call.
C29_FailedCallbackKeepsSessions ==
  [][ CallbackFailed(last') => Sessions' = Sessions ]_vars

\* the exchange of a callback failed while a session was on file
C29_Witness ==
  /\ CallbackFailed(last)
  /\ last.exchanged
  /\ Sessions # EmptyMap

\* ---- C30: whose session a cookie stands for
\* C30: a user agent that never completed a callback and sends a bsky_session
\* cookie naming d is given no page data of d by a protected load, and its
\* request to the logout endpoint removes no session of d.
C30_ServedOnlyAfterOwnCallback ==
  /\ (last.op \in LoadOps /\ last.agent = Outsider) => last.out.kind # "data"
  /\ last.op = "outsiderLogout" => ~last.removed

====
